---- MODULE Spec2Model ----
(***************************************************************************)
(* One instance of a polling React component of the IoT watch frontend:    *)
(* TemperatureDisplay (latest reading, cards file) or TemperatureChart     *)
(* (history window, TemperatureChart.jsx).  The two components share no    *)
(* state, so a behaviour follows one instance; Init chooses which.         *)
(*                                                                         *)
(* Temperatures are integers in tenths of a degree (19.5 is 195).          *)
(***************************************************************************)
EXTENDS Integers, Sequences, FiniteSets, TLC

VARIABLES
    component,        \* which component this instance is
    mounted,          \* "init" (constructed), "mounted", "unmounted"
    interval,         \* TRUE while the setInterval handle is active
    reqs,             \* the fetches issued so far, in issue order
    data,             \* TemperatureDisplay: useState {temperature,time,trend}
    temperatureData,  \* TemperatureChart: useState {timestamps,temperatures,count}
    loading,          \* useState(true) of either component
    error,            \* TemperatureChart: useState(null)
    calls,            \* the state setters the last step invoked
    last,             \* the fetch that completed last: its index and outcome
    rendered          \* output of the last render of the instance

vars == <<component, mounted, interval, reqs, data, temperatureData,
          loading, error, calls, last, rendered>>

-----------------------------------------------------------------------------
(* Bounds *)

\* fetches one instance issues in a behaviour
MaxRequests == 3
\* longest temperatures array the statistics are checked on
MaxLen == 3

-----------------------------------------------------------------------------
(* JavaScript values *)

Null == [tag |-> "null", val |-> 0]
Undefined == [tag |-> "undefined", val |-> 0]
Num(n) == [tag |-> "number", val |-> n]
Str(s) == [tag |-> "string", str |-> s]
Arr(a) == [tag |-> "array", arr |-> a]

\* ToNumber as applied by + and Math.max / Math.min: null is 0
ToNumber(v) == IF v.tag = "number" THEN v.val ELSE 0

\* truthiness for the operands of || and of if (error)
Truthy(v) ==
    CASE v.tag = "null" -> FALSE
      [] v.tag = "undefined" -> FALSE
      [] v.tag = "number" -> v.val # 0
      [] v.tag = "string" -> v.str # ""
      [] OTHER -> TRUE

-----------------------------------------------------------------------------
(* Responses of the remote endpoints *)

\* time strings a response carries; the second one is not a date
GoodTime == "2024-01-01T10:30:00"
BadTime == "not-a-date"

\* JSON bodies of GET /api/latest
LatestBodies ==
    { [temperature |-> Num(215), time |-> Str(GoodTime), trend |-> "up"],
      [temperature |-> Num(198), time |-> Str(BadTime), trend |-> "down"],
      [temperature |-> Null, time |-> Null, trend |-> "stable"],
      [temperature |-> Undefined, time |-> Str(GoodTime), trend |-> "stable"] }

\* JSON bodies of GET /api/history
HistoryBodies ==
    { [lastTimestamps |-> Arr(<<Str(GoodTime), Str(GoodTime), Str(GoodTime)>>),
       lastTemperatures |-> Arr(<<Num(180), Num(200), Num(220)>>),
       count |-> Num(3)],
      [lastTimestamps |-> Arr(<<Str(BadTime)>>),
       lastTemperatures |-> Arr(<<Num(195)>>),
       count |-> Num(7)],
      [lastTimestamps |-> Arr(<<Str(GoodTime), Str(GoodTime)>>),
       lastTemperatures |-> Arr(<<Null, Num(200)>>),
       count |-> Num(2)],
      [lastTimestamps |-> Arr(<<>>),
       lastTemperatures |-> Arr(<<>>),
       count |-> Num(0)],
      [lastTimestamps |-> Undefined,
       lastTemperatures |-> Arr(<<Num(210)>>),
       count |-> Undefined],
      [lastTimestamps |-> Undefined,
       lastTemperatures |-> Undefined,
       count |-> Undefined] }

\* err.message of the three ways a fetch fails
NetworkMessage == "Failed to fetch"
HttpMessage(status) == "HTTP error! status: " \o status
ParseMessage == "Unexpected token < in JSON at position 0"
NullMessage == "Cannot read properties of null"

\* non-success statuses the server answers with
BadStatuses == {"404", "500"}

-----------------------------------------------------------------------------
(* Time formatting *)

\* the strings new Date(...) parses, with their local 24-hour hour:minute
LocalClock == (GoodTime :> "10:30")

\* new Date(s).toLocaleTimeString('en-US', {hour12: false, ...}): it does
\* not throw for a string that is no date, it returns "Invalid Date"
toLocaleTimeString(s) ==
    IF s \in DOMAIN LocalClock THEN LocalClock[s] ELSE "Invalid Date"

\* variant: no guard for a missing time; new Date(null) is the epoch
formatTimeUnguarded(timeString) ==
    IF timeString.tag = "string" THEN toLocaleTimeString(timeString.str)
    ELSE "00:00"

\* formatTime of TemperatureCard; its catch block is never entered
formatTime(timeString) ==
    IF ~Truthy(timeString) THEN "--:--"
    ELSE toLocaleTimeString(timeString.str)

\* formatTimestamp of TemperatureChart; its catch block is never entered
formatTimestamp(timestamp) == toLocaleTimeString(timestamp.str)

-----------------------------------------------------------------------------
(* Rendering *)

NoStats == [shown |-> FALSE]

RECURSIVE reduce(_, _)
\* temperatures.reduce((a, b) => a + b, 0), folded from the left
reduce(temps, acc) ==
    IF temps = <<>> THEN acc
    ELSE reduce(Tail(temps), acc + ToNumber(Head(temps)))

RECURSIVE MathMax(_)
\* Math.max(...temps) of a non-empty array
MathMax(temps) ==
    IF Len(temps) = 1 THEN ToNumber(temps[1])
    ELSE LET m == MathMax(Tail(temps))
             h == ToNumber(Head(temps))
         IN IF h > m THEN h ELSE m

RECURSIVE MathMin(_)
\* Math.min(...temps) of a non-empty array
MathMin(temps) ==
    IF Len(temps) = 1 THEN ToNumber(temps[1])
    ELSE LET m == MathMin(Tail(temps))
             h == ToNumber(Head(temps))
         IN IF h < m THEN h ELSE m

\* (num / den).toFixed(1) in tenths: the nearest tenth, halves away from zero
toFixed(num, den) ==
    LET a == IF num < 0 THEN -num ELSE num
        q == (2 * a + den) \div (2 * den)
    IN IF num < 0 THEN -q ELSE q

\* variant: the divisor is one too large
AverageOffByOne(temps) == [num |-> reduce(temps, 0), den |-> Len(temps) + 1]

\* the value before rounding, as a fraction
Average(temps) == [num |-> reduce(temps, 0), den |-> Len(temps)]
Range(temps) == MathMax(temps) - MathMin(temps)

\* temps[temps.length - 1]?.toFixed(1): nothing is printed for null
Current(temps) ==
    LET v == temps[Len(temps)]
    IN IF v.tag = "number" THEN Num(toFixed(v.val, 1)) ELSE Undefined

\* variant: the block needs two readings
StatsBlockFromTwo(temps) ==
    IF Len(temps) > 1
    THEN [shown |-> TRUE,
          current |-> Current(temps),
          average |-> toFixed(Average(temps).num, Average(temps).den),
          range |-> toFixed(Range(temps), 1)]
    ELSE NoStats

\* the "Temperature stats" block of the chart view
StatsBlock(temps) ==
    IF Len(temps) > 0
    THEN [shown |-> TRUE,
          current |-> Current(temps),
          average |-> toFixed(Average(temps).num, Average(temps).den),
          range |-> toFixed(Range(temps), 1)]
    ELSE NoStats

\* what TemperatureChart returns
RenderChart(l, e, td) ==
    IF l THEN [view |-> "loading"]
    ELSE IF Truthy(e) THEN [view |-> "error", message |-> e, retry |-> TRUE]
    ELSE [view |-> "chart",
          count |-> td.count,
          labels |-> [k \in 1..Len(td.timestamps) |-> formatTimestamp(td.timestamps[k])],
          stats |-> StatsBlock(td.temperatures)]

\* {temperature !== null ? temperature : "--"}; undefined prints nothing
TemperatureText(temperature) ==
    IF temperature # Null THEN temperature ELSE Str("--")

\* variant: the indicator is rendered for every trend
TrendAlways(trend) == IF trend = "up" THEN "Rising" ELSE "Falling"

\* {trend !== "stable" && (trend === "up" ? Rising : Falling)}
TrendIndicator(trend) ==
    IF trend # "stable"
    THEN IF trend = "up" THEN "Rising" ELSE "Falling"
    ELSE "none"

\* what TemperatureCard returns
TemperatureCard(time, temperature, trend) ==
    [view |-> "card",
     time |-> formatTime(time),
     temperature |-> TemperatureText(temperature),
     indicator |-> TrendIndicator(trend)]

\* what TemperatureDisplay returns
RenderDisplay(l, d) ==
    IF l THEN [view |-> "loading"]
    ELSE TemperatureCard(d.time, d.temperature, d.trend)

\* the screen of the instance: nothing once it is unmounted
Screen ==
    IF mounted = "unmounted" THEN [view |-> "none"]
    ELSE IF component = "TemperatureChart"
         THEN RenderChart(loading, error, temperatureData)
         ELSE RenderDisplay(loading, data)

-----------------------------------------------------------------------------
(* State after construction *)

InitialData == [temperature |-> Null, time |-> Null, trend |-> "stable"]
InitialTemperatureData == [timestamps |-> <<>>, temperatures |-> <<>>, count |-> 0]
NoFetch == [id |-> 0, ok |-> FALSE, result |-> Null]

Init ==
    /\ component \in {"TemperatureDisplay", "TemperatureChart"}
    /\ mounted = "init"
    /\ interval = FALSE
    /\ reqs = <<>>
    /\ data = InitialData
    /\ temperatureData = InitialTemperatureData
    /\ loading = TRUE
    /\ error = Null
    /\ calls = {}
    /\ last = NoFetch
    /\ rendered = [view |-> "loading"]

-----------------------------------------------------------------------------
(* The fetch routines: fetchTemperature and fetchTemperatureHistory *)

Bodies == IF component = "TemperatureChart" THEN HistoryBodies ELSE LatestBodies

\* x || [] for the array fields of the history body
OrEmpty(x) == IF Truthy(x) THEN x.arr ELSE <<>>
\* variant: a missing count keeps the count held before
OrStale(x) == IF Truthy(x) THEN x.val ELSE temperatureData.count
\* x || 0 for the count field of the history body
OrZero(x) == IF Truthy(x) THEN x.val ELSE 0

\* the object handed to setData after a successful response
LatestOf(result) ==
    [temperature |-> result.temperature,
     time |-> result.time,
     trend |-> result.trend]

\* variant: count is taken from the array instead of the reported count
HistoryCountFromLength(result) ==
    [timestamps |-> OrEmpty(result.lastTimestamps),
     temperatures |-> OrEmpty(result.lastTemperatures),
     count |-> Len(OrEmpty(result.lastTemperatures))]

\* the object handed to setTemperatureData after a successful response
HistoryOf(result) ==
    [timestamps |-> OrEmpty(result.lastTimestamps),
     temperatures |-> OrEmpty(result.lastTemperatures),
     count |-> OrZero(result.count)]

\* variant: the catch block resets the reading
ResetData(prev) == InitialData
\* setData(prev => ({ ...prev })) in the catch block of fetchTemperature
KeepData(prev) == prev

\* variant: the catch block empties the window
DropTemperatureData(prev) == InitialTemperatureData
\* the catch block of fetchTemperatureHistory never calls setTemperatureData
KeepTemperatureData(prev) == prev

\* variant: the catch block only logs, as fetchTemperature does
CatchErrorSwallowed(message) == error
\* setError(err.message)
CatchError(message) == Str(message)

\* variant: the error of an earlier failure is kept
StaleError == error
\* setError(null) after a successful response
ClearError == Null

\* variant: setLoading(false) sits at the end of the try block
LoadingOnSuccess(ok) == IF ok THEN FALSE ELSE loading
\* setLoading(false) in the finally block
FinallyLoading(ok) == FALSE

\* the first statement of either routine: fetch(url), then suspend
Issue(origin, live) ==
    reqs' = Append(reqs, [origin |-> origin, phase |-> "fetch", live |-> live])

\* request i leaves the routine: "resolved" through try, "failed" through catch
Done(i, ok, result) ==
    /\ reqs' = [reqs EXCEPT ![i].phase = IF ok THEN "resolved" ELSE "failed"]
    /\ last' = [id |-> i, ok |-> ok, result |-> result]

\* variant: a response is dropped when a later request already resolved
SucceedInOrder(i, result) ==
    /\ Done(i, TRUE, result)
    /\ IF \E j \in (i + 1)..Len(reqs) : reqs[j].phase = "resolved"
       THEN /\ calls' = {"setLoading"}
            /\ UNCHANGED <<data, temperatureData, error>>
       ELSE IF component = "TemperatureChart"
       THEN /\ temperatureData' = HistoryOf(result)
            /\ error' = ClearError
            /\ calls' = {"setTemperatureData", "setError", "setLoading"}
            /\ UNCHANGED data
       ELSE /\ data' = LatestOf(result)
            /\ calls' = {"setData", "setLoading"}
            /\ UNCHANGED <<temperatureData, error>>
    /\ loading' = FinallyLoading(TRUE)

\* try block ran to its end with the parsed body: setters, then finally
Succeed(i, result) ==
    /\ Done(i, TRUE, result)
    /\ IF component = "TemperatureChart"
       THEN /\ temperatureData' = HistoryOf(result)
            /\ error' = ClearError
            /\ calls' = {"setTemperatureData", "setError", "setLoading"}
            /\ UNCHANGED data
       ELSE /\ data' = LatestOf(result)
            /\ calls' = {"setData", "setLoading"}
            /\ UNCHANGED <<temperatureData, error>>
    /\ loading' = FinallyLoading(TRUE)

\* something was thrown inside the try block: catch, then finally
Fail(i, message) ==
    /\ Done(i, FALSE, Null)
    /\ IF component = "TemperatureChart"
       THEN /\ temperatureData' = KeepTemperatureData(temperatureData)
            /\ error' = CatchError(message)
            /\ calls' = {"setError", "setLoading"}
            /\ UNCHANGED data
       ELSE /\ data' = KeepData(data)
            /\ calls' = {"setData", "setLoading"}
            /\ UNCHANGED <<temperatureData, error>>
    /\ loading' = FinallyLoading(FALSE)

-----------------------------------------------------------------------------
(* Steps of the instance *)

\* variant: the effect returns no cleanup
CleanupMissing == interval
\* value of the interval handle after the effect's cleanup ran
Cleanup == FALSE

\* variant: the effect only installs the interval
MountWithoutFetch ==
    /\ mounted = "init"
    /\ mounted' = "mounted"
    /\ interval' = TRUE
    /\ calls' = {}
    /\ UNCHANGED <<component, reqs, data, temperatureData, loading, error, last>>
    /\ rendered' = Screen'

\* useEffect(..., []): the initial fetch and setInterval
Mount ==
    /\ mounted = "init"
    /\ mounted' = "mounted"
    /\ interval' = TRUE
    /\ Issue("mount", TRUE)
    /\ calls' = {}
    /\ UNCHANGED <<component, data, temperatureData, loading, error, last>>
    /\ rendered' = Screen'

\* the interval fires: one more call of the fetch routine
Tick ==
    /\ interval
    /\ Len(reqs) < MaxRequests
    /\ Issue("timer", mounted = "mounted")
    /\ calls' = {}
    /\ UNCHANGED <<component, mounted, interval, data, temperatureData,
                   loading, error, last>>
    /\ rendered' = Screen'

\* variant: the button is rendered in the chart view as well
RetryAnywhere ==
    /\ rendered.view \in {"error", "chart"}
    /\ Len(reqs) < MaxRequests
    /\ Issue("retry", mounted = "mounted")
    /\ calls' = {}
    /\ UNCHANGED <<component, mounted, interval, data, temperatureData,
                   loading, error, last>>
    /\ rendered' = Screen'

\* onClick of the Retry button of the error view
Retry ==
    /\ rendered.view = "error"
    /\ Len(reqs) < MaxRequests
    /\ Issue("retry", mounted = "mounted")
    /\ calls' = {}
    /\ UNCHANGED <<component, mounted, interval, data, temperatureData,
                   loading, error, last>>
    /\ rendered' = Screen'

\* the component is removed: the effect's cleanup runs
Unmount ==
    /\ mounted = "mounted"
    /\ mounted' = "unmounted"
    /\ interval' = Cleanup
    /\ calls' = {}
    /\ UNCHANGED <<component, reqs, data, temperatureData, loading, error, last>>
    /\ rendered' = Screen'

\* await fetch(...) rejects: no response was received
NetworkError(i) ==
    /\ reqs[i].phase = "fetch"
    /\ Fail(i, NetworkMessage)
    /\ UNCHANGED <<component, mounted, interval>>
    /\ rendered' = Screen'

\* await fetch(...) resolves with !response.ok: the routine throws
HttpError(i) ==
    /\ reqs[i].phase = "fetch"
    /\ \E status \in BadStatuses : Fail(i, HttpMessage(status))
    /\ UNCHANGED <<component, mounted, interval>>
    /\ rendered' = Screen'

\* await fetch(...) resolves with response.ok: suspend on response.json()
ResponseOk(i) ==
    /\ reqs[i].phase = "fetch"
    /\ reqs' = [reqs EXCEPT ![i].phase = "json"]
    /\ calls' = {}
    /\ UNCHANGED <<component, mounted, interval, data, temperatureData,
                   loading, error, last>>
    /\ rendered' = Screen'

\* await response.json() resolves with a parsed body out of the set S
JsonOkFrom(i, S) ==
    /\ reqs[i].phase = "json"
    /\ \E result \in S : Succeed(i, result)
    /\ UNCHANGED <<component, mounted, interval>>
    /\ rendered' = Screen'

JsonOk(i) == JsonOkFrom(i, Bodies)

\* await response.json() rejects: the body is not JSON
JsonError(i) ==
    /\ reqs[i].phase = "json"
    /\ Fail(i, ParseMessage)
    /\ UNCHANGED <<component, mounted, interval>>
    /\ rendered' = Screen'

\* await response.json() resolves with null: reading result's field throws
JsonNull(i) ==
    /\ reqs[i].phase = "json"
    /\ Fail(i, NullMessage)
    /\ UNCHANGED <<component, mounted, interval>>
    /\ rendered' = Screen'

Next ==
    \/ Mount
    \/ Tick
    \/ Retry
    \/ Unmount
    \/ \E i \in 1..Len(reqs) : NetworkError(i)
    \/ \E i \in 1..Len(reqs) : HttpError(i)
    \/ \E i \in 1..Len(reqs) : ResponseOk(i)
    \/ \E i \in 1..Len(reqs) : JsonOk(i)
    \/ \E i \in 1..Len(reqs) : JsonError(i)
    \/ \E i \in 1..Len(reqs) : JsonNull(i)

Spec == Init /\ [][Next]_vars

-----------------------------------------------------------------------------
(* The statistics block over every short window: the first fetch of a      *)
(* TemperatureChart is answered with any temperatures array of at most     *)
(* MaxLen readings.                                                        *)

\* readings a window is built from: tenths of a degree, or null
Readings == {Null} \cup {Num(v) : v \in {-5, 180, 195, 200, 220}}

\* every temperatures array of at most MaxLen readings
Windows == UNION {[1..n -> Readings] : n \in 0..MaxLen}

\* the history body that carries window w
BodyOf(w) ==
    [lastTimestamps |-> Arr([k \in 1..Len(w) |-> Str(GoodTime)]),
     lastTemperatures |-> Arr(w),
     count |-> Num(Len(w))]

\* a mounted chart whose first fetch awaits response.json()
StatsInit ==
    /\ component = "TemperatureChart"
    /\ mounted = "mounted"
    /\ interval = TRUE
    /\ reqs = <<[origin |-> "mount", phase |-> "json", live |-> TRUE]>>
    /\ data = InitialData
    /\ temperatureData = InitialTemperatureData
    /\ loading = TRUE
    /\ error = Null
    /\ calls = {}
    /\ last = NoFetch
    /\ rendered = [view |-> "loading"]

StatsNext == JsonOkFrom(1, {BodyOf(w) : w \in Windows})

StatsSpec == StatsInit /\ [][StatsNext]_vars

-----------------------------------------------------------------------------
(* Properties *)

\* some fetch went through the try block before now
SomeResolved == \E i \in 1..Len(reqs) : reqs[i].phase = "resolved"
SomeFailed == \E i \in 1..Len(reqs) : reqs[i].phase = "failed"
SomeInFlight == \E i \in 1..Len(reqs) : reqs[i].phase \in {"fetch", "json"}

\* the value a response field carries, d when the field is absent
Given(x, d) ==
    CASE x.tag = "array" -> x.arr
      [] x.tag = "number" -> x.val
      [] OTHER -> d

\* window td holds exactly what the response body carries
StoredIs(td, result) ==
    /\ td.timestamps = Given(result.lastTimestamps, <<>>)
    /\ td.temperatures = Given(result.lastTemperatures, <<>>)
    /\ td.count = Given(result.count, 0)

\* C1: a failed fetchTemperature that follows a successful one leaves
\* data.temperature, data.time and data.trend as they were.
C1_FailedFetchKeepsReading ==
    [][(/\ component = "TemperatureDisplay"
        /\ last'.id # last.id
        /\ ~last'.ok
        /\ SomeResolved)
       => /\ data'.temperature = data.temperature
          /\ data'.time = data.time
          /\ data'.trend = data.trend]_vars

C1_Witness ==
    /\ component = "TemperatureDisplay"
    /\ last.id # 0
    /\ ~last.ok
    /\ SomeResolved
    /\ data.temperature = Num(215)

\* C2: once the instance is unmounted, no step invokes a state setter
\* (setData, setTemperatureData, setError, setLoading).
C2_NoSetterAfterUnmount == mounted = "unmounted" => calls = {}

\* C3: after unmount the interval is cancelled, and every fetch the timer
\* issued was issued while the component was mounted.
C3_NoTickAfterUnmount ==
    /\ mounted = "unmounted" => ~interval
    /\ \A i \in 1..Len(reqs) : reqs[i].origin = "timer" => reqs[i].live

C3_Witness ==
    /\ mounted = "unmounted"
    /\ Len(reqs) = 2
    /\ reqs[2].origin = "timer"

\* C4: loading is true exactly until the first fetch completes, whatever
\* its outcome, and false in every state after that.
C4_LoadingUntilFirstResolution == loading <=> last.id = 0

C4_Witness ==
    /\ ~loading
    /\ SomeInFlight
    /\ \E i \in 1..Len(reqs) : reqs[i].origin = "retry" /\ reqs[i].phase = "failed"

\* C5: on a mounted chart, a failure after an earlier success shows the
\* error view, and a manual retry that succeeds shows the chart view with
\* the window that retry returned.
C5_FailureThenRetry ==
    [][(/\ component = "TemperatureChart"
        /\ mounted' = "mounted"
        /\ last'.id # last.id)
       => /\ (~last'.ok /\ SomeResolved) => rendered'.view = "error"
          /\ (last'.ok /\ reqs[last'.id].origin = "retry")
             => /\ rendered'.view = "chart"
                /\ StoredIs(temperatureData', last'.result)]_vars

C5_Witness ==
    /\ component = "TemperatureChart"
    /\ mounted = "mounted"
    /\ Len(reqs) = 3
    /\ reqs[1].phase = "resolved"
    /\ reqs[2].phase = "failed"
    /\ reqs[3].origin = "retry"
    /\ last.id = 3
    /\ last.ok
    /\ rendered.view = "chart"
    /\ temperatureData.temperatures = <<Num(195)>>

\* C6: every failed fetchTemperatureHistory sets error to a non-empty
\* message and leaves temperatureData as it was.
C6_FailureSetsErrorKeepsWindow ==
    [][(/\ component = "TemperatureChart"
        /\ last'.id # last.id
        /\ ~last'.ok)
       => /\ error'.tag = "string"
          /\ error'.str # ""
          /\ temperatureData' = temperatureData]_vars

C6_Witness ==
    /\ component = "TemperatureChart"
    /\ last.id # 0
    /\ ~last.ok
    /\ error = Str(HttpMessage("500"))
    /\ temperatureData.temperatures = <<Num(180), Num(200), Num(220)>>

\* C7: every successful fetchTemperatureHistory stores the timestamps,
\* temperatures and count of the response and sets error to null.
C7_SuccessReplacesWindow ==
    [][(/\ component = "TemperatureChart"
        /\ last'.id # last.id
        /\ last'.ok)
       => /\ StoredIs(temperatureData', last'.result)
          /\ error' = Null]_vars

C7_Witness ==
    /\ component = "TemperatureChart"
    /\ last.id # 0
    /\ last.ok
    /\ SomeFailed
    /\ SomeResolved
    /\ error = Null
    /\ temperatureData.count = 7

\* the readings of a window that carry a number
PresentOnly(temps) == SelectSeq(temps, LAMBDA v : v.tag = "number")

RECURSIVE SumTo(_, _)
\* sum of the first n numbers of s
SumTo(s, n) == IF n = 0 THEN 0 ELSE s[n].val + SumTo(s, n - 1)

Largest(s) ==
    CHOOSE m \in {s[i].val : i \in 1..Len(s)} : \A i \in 1..Len(s) : s[i].val <= m
Smallest(s) ==
    CHOOSE m \in {s[i].val : i \in 1..Len(s)} : \A i \in 1..Len(s) : s[i].val >= m

\* r is a tenth nearest to num / den
Rounds(r, num, den) ==
    LET d == r * den - num
    IN 2 * (IF d < 0 THEN -d ELSE d) <= den

\* C8: in a window that mixes null and numbers, the average and the range
\* shown are those of the numbers alone.
C8_NullNotAggregated ==
    LET t == temperatureData.temperatures
        p == PresentOnly(t)
    IN (/\ rendered.view = "chart"
        /\ rendered.stats.shown
        /\ Len(p) > 0
        /\ Len(p) < Len(t))
       => /\ Rounds(rendered.stats.average, SumTo(p, Len(p)), Len(p))
          /\ rendered.stats.range = Largest(p) - Smallest(p)

\* C9: for a non-empty window of numbers, current is the last element,
\* average the sum over the length and range the maximum minus the
\* minimum; [18, 20, 22] gives 22, 20, 4 and [v] gives v, v, 0.
C9_StatsOfNumbers ==
    LET t == temperatureData.temperatures
        s == rendered.stats
    IN (/\ rendered.view = "chart"
        /\ Len(t) > 0
        /\ Len(PresentOnly(t)) = Len(t))
       => /\ s.shown
          /\ s.current = t[Len(t)]
          /\ Average(t).num = SumTo(t, Len(t))
          /\ Average(t).den = Len(t)
          /\ Rounds(s.average, SumTo(t, Len(t)), Len(t))
          /\ Range(t) = Largest(t) - Smallest(t)
          /\ s.range = Largest(t) - Smallest(t)
          /\ t = <<Num(180), Num(200), Num(220)>>
             => s = [shown |-> TRUE, current |-> Num(220),
                     average |-> 200, range |-> 40]
          /\ Len(t) = 1
             => s = [shown |-> TRUE, current |-> t[1],
                     average |-> t[1].val, range |-> 0]

C9_Witness ==
    /\ rendered.view = "chart"
    /\ temperatureData.temperatures = <<Num(180), Num(200), Num(220)>>
    /\ rendered.stats.average = 200

\* C10: in the chart view the statistics block is rendered exactly when
\* temperatures is not empty; for an empty window nothing is computed.
C10_StatsIffNonEmpty ==
    LET t == temperatureData.temperatures
    IN rendered.view = "chart"
       => /\ rendered.stats.shown <=> Len(t) > 0
          /\ Len(t) = 0 => rendered.stats = NoStats

C10_Witness ==
    /\ rendered.view = "chart"
    /\ last.ok
    /\ temperatureData.temperatures = <<>>
    /\ rendered.stats = NoStats

\* the reading held carries no temperature: null, or a missing field
TemperatureAbsent == data.temperature.tag \in {"null", "undefined"}

\* the time held is missing or is no date
TimeUnusable ==
    \/ data.time.tag \in {"null", "undefined"}
    \/ data.time.tag = "string" /\ data.time.str \notin DOMAIN LocalClock

\* C11: whenever the card is rendered for a reading without a temperature
\* (initial null, null from the source, or field missing), it shows "--".
C11_AbsentTemperaturePlaceholder ==
    (/\ component = "TemperatureDisplay"
     /\ rendered.view = "card"
     /\ TemperatureAbsent)
    => rendered.temperature = Str("--")

\* C12: whenever trend is "stable" no Rising or Falling indicator is
\* rendered, whatever temperature and time are.
C12_StableNoIndicator ==
    (/\ component = "TemperatureDisplay"
     /\ mounted # "unmounted"
     /\ data.trend = "stable")
    => \/ rendered.view = "loading"
       \/ rendered.view = "card" /\ rendered.indicator = "none"

C12_Witness ==
    /\ component = "TemperatureDisplay"
    /\ rendered.view = "card"
    /\ data.trend = "stable"
    /\ data.time = Str(GoodTime)
    /\ rendered.indicator = "none"

\* C13: a successful history response stores an empty sequence for a
\* missing array and 0 for a missing count, clears the error, and stores
\* the arrays as delivered whatever the reported count is.
C13_MissingFieldsDefaulted ==
    [][(/\ component = "TemperatureChart"
        /\ last'.id # last.id
        /\ last'.ok)
       => LET r == last'.result
              td == temperatureData'
          IN /\ r.lastTimestamps.tag = "undefined" => td.timestamps = <<>>
             /\ r.lastTemperatures.tag = "undefined" => td.temperatures = <<>>
             /\ r.count.tag = "undefined" => td.count = 0
             /\ r.lastTimestamps.tag = "array" => td.timestamps = r.lastTimestamps.arr
             /\ r.lastTemperatures.tag = "array"
                => td.temperatures = r.lastTemperatures.arr
             /\ error' = Null
             /\ reqs'[last'.id].phase = "resolved"]_vars

C13_Witness ==
    /\ component = "TemperatureChart"
    /\ last.ok
    /\ SomeFailed
    /\ last.result.lastTimestamps.tag = "undefined"
    /\ last.result.count.tag = "undefined"
    /\ temperatureData.timestamps = <<>>
    /\ temperatureData.temperatures = <<Num(210)>>
    /\ temperatureData.count = 0
    /\ error = Null

\* C14: whenever the card is rendered for a time that is absent or is no
\* date, the time label is "--:--".
C14_UnusableTimePlaceholder ==
    (/\ component = "TemperatureDisplay"
     /\ rendered.view = "card"
     /\ TimeUnusable)
    => rendered.time = "--:--"

\* C15: every chart label is the local hour:minute of its timestamp, or
\* the raw timestamp when that is no date.
C15_LabelRawWhenUnparseable ==
    (/\ component = "TemperatureChart"
     /\ rendered.view = "chart")
    => \A k \in 1..Len(temperatureData.timestamps) :
          LET t == temperatureData.timestamps[k].str
          IN rendered.labels[k] =
                IF t \in DOMAIN LocalClock THEN LocalClock[t] ELSE t

\* C16: a mounted TemperatureDisplay shows the spinner (only before the
\* first fetch completes) or the card, never an error view; while no fetch
\* has succeeded the card shows "--", "--:--" and no indicator; every
\* fetch leaves the routine through try or catch.
C16_DisplayNeverShowsError ==
    (/\ component = "TemperatureDisplay"
     /\ mounted # "unmounted")
    => /\ rendered.view \in {"loading", "card"}
       /\ rendered.view = "loading" <=> last.id = 0
       /\ (last.id # 0 /\ ~SomeResolved)
          => rendered = [view |-> "card", time |-> "--:--",
                         temperature |-> Str("--"), indicator |-> "none"]
       /\ \A i \in 1..Len(reqs) :
             reqs[i].phase \in {"fetch", "json", "resolved", "failed"}

C16_Witness ==
    /\ component = "TemperatureDisplay"
    /\ mounted = "mounted"
    /\ last.id # 0
    /\ ~SomeResolved
    /\ SomeInFlight
    /\ rendered.view = "card"
    /\ rendered.time = "--:--"

\* a fetch is issued in this step, by origin o
Issues(o) == Len(reqs') > Len(reqs) /\ reqs'[Len(reqs')].origin = o

\* C17: every successful response is applied wholesale, also when a
\* request issued later has already been applied: the state then equals
\* the payload of the older request.
C17_LastCompletedWins ==
    [][(last'.id # last.id /\ last'.ok)
       => LET r == last'.result
          IN IF component = "TemperatureChart"
             THEN StoredIs(temperatureData', r)
             ELSE /\ data'.temperature = r.temperature
                  /\ data'.time = r.time
                  /\ data'.trend = r.trend]_vars

C17_Witness ==
    /\ component = "TemperatureDisplay"
    /\ Len(reqs) >= 2
    /\ reqs[2].phase = "resolved"
    /\ last.id = 1
    /\ last.ok
    /\ last.result.temperature = Num(215)
    /\ data.temperature = Num(215)

\* C18: Retry is issued only from the error view, starts the same fetch
\* routine and leaves the interval alone; when it succeeds on a mounted
\* chart, error is null and the chart is rendered in that very step.
C18_RetryIndependentOfTimer ==
    [][/\ Issues("retry")
          => /\ component = "TemperatureChart"
             /\ rendered.view = "error"
             /\ Len(reqs') = Len(reqs) + 1
             /\ reqs'[Len(reqs')].phase = "fetch"
             /\ interval' = interval
             /\ mounted' = mounted
       /\ (/\ component = "TemperatureChart"
           /\ mounted' = "mounted"
           /\ last'.id # last.id
           /\ last'.ok
           /\ reqs[last'.id].origin = "retry")
          => /\ error' = Null
             /\ rendered'.view = "chart"
             /\ Len(reqs') = Len(reqs)
             /\ interval' = interval]_vars

C18_Witness ==
    /\ component = "TemperatureChart"
    /\ mounted = "mounted"
    /\ interval
    /\ last.ok
    /\ reqs[last.id].origin = "retry"
    /\ \A i \in 1..Len(reqs) : reqs[i].origin # "timer"
    /\ error = Null
    /\ rendered.view = "chart"

\* the timer and the first fetch of an instance
OneTimerOneMountFetch ==
    /\ mounted = "init" => reqs = <<>> /\ ~interval
    /\ mounted = "mounted" => interval
    /\ mounted = "unmounted" => ~interval
    /\ mounted # "init"
       => /\ Len(reqs) >= 1
          /\ reqs[1].origin = "mount"
          /\ \A i \in 2..Len(reqs) : reqs[i].origin # "mount"

\* C19: mounting issues one fetch before any tick and installs the timer;
\* a mounted instance has its timer active and an unmounted one has none;
\* every step that issues a fetch issues exactly one.
C19_OneFetchPerMountAndTick ==
    /\ []OneTimerOneMountFetch
    /\ [][Len(reqs') # Len(reqs)
          => /\ Len(reqs') = Len(reqs) + 1
             /\ SubSeq(reqs', 1, Len(reqs)) = reqs
             /\ reqs'[Len(reqs')].phase = "fetch"
             /\ Issues("timer") => interval]_vars

C19_Witness ==
    /\ mounted = "mounted"
    /\ interval
    /\ Len(reqs) = 3
    /\ reqs[1].phase = "fetch"
    /\ reqs[2].origin = "timer"
    /\ reqs[2].phase = "json"
    /\ reqs[3].origin = "timer"

\* the view of TemperatureChart after the first completion follows the
\* outcome of the fetch that completed last
ViewFollowsLast ==
    (component = "TemperatureChart" /\ mounted # "unmounted")
    => /\ rendered.view \in {"loading", "chart", "error"}
       /\ loading => rendered.view = "loading"
       /\ ~loading
          => /\ rendered.view = "error" <=> ~last.ok
             /\ rendered.view = "chart" <=> last.ok

ViewTransitions ==
    { <<"loading", "chart">>, <<"loading", "error">>,
      <<"chart", "chart">>, <<"chart", "error">>,
      <<"error", "chart">>, <<"error", "error">> }

\* C20: a mounted TemperatureChart shows Loading, Ready or Failed, Loading
\* first; afterwards Failed exactly when the fetch completed last failed;
\* the view changes only when a fetch completes, along the six transitions.
C20_HistoryStateMachine ==
    /\ []ViewFollowsLast
    /\ [][(component = "TemperatureChart" /\ mounted' # "unmounted")
          => IF last'.id # last.id
             THEN <<rendered.view, rendered'.view>> \in ViewTransitions
             ELSE rendered'.view = rendered.view]_vars

C20_Witness ==
    /\ component = "TemperatureChart"
    /\ mounted = "mounted"
    /\ SomeResolved
    /\ last.id # 0
    /\ ~last.ok
    /\ reqs[last.id].origin = "retry"
    /\ rendered.view = "error"

====
